---- MODULE Spec2Model ----
(***************************************************************************)
(* MomentumStrategy (strategies/MomentumStrategy.py): indicator columns,   *)
(* entry/exit signal columns, dynamic leverage and custom stop-loss.       *)
(*                                                                         *)
(* Numbers.  Prices, volumes and the oscillator readings TA-Lib returns    *)
(* are integers, NaN being pandas' undefined marker.  What the code        *)
(* computes from them in floats (bb_percent, volume_mean, volume_ratio,    *)
(* price_momentum, the returns and the volatilities of leverage) is held   *)
(* as the IEEE-754 double the code holds, every operation rounded as the   *)
(* processor rounds it.  Decimal literals and DecimalParameter values      *)
(* (0.01, 0.8, volume_factor, volatility_threshold, profits, stop          *)
(* distances, leverage) are given as multiples of 1 / Scale; where the     *)
(* code computes with one, it is the double nearest to that decimal.       *)
(***************************************************************************)
EXTENDS Integers, Sequences, FiniteSets, TLC

VARIABLES
    dataframe,   \* the DataFrame: column name -> sequence of values
    talib,       \* what the TA-Lib calls return for this frame: column -> sequence
    params,      \* the strategy's hyperopt parameters (.value of each)
    call,        \* the arguments the host passes to leverage / custom_stoploss
    ret          \* the value that call returned (NaN before it has run)

vars == <<dataframe, talib, params, call, ret>>

Scale == 100 * 100
NaN == 0 - (10 ^ 9)

----------------------------------------------------------------------------
(* Comparisons and differences of the integer-valued columns, with NaN as  *)
(* numpy / pandas treat it.                                                *)

IsNaN(x) == x = NaN

\* a > b on floats: False as soon as one side is NaN
Gt(a, b) == ~IsNaN(a) /\ ~IsNaN(b) /\ a > b
Lt(a, b) == ~IsNaN(a) /\ ~IsNaN(b) /\ a < b
Ge(a, b) == ~IsNaN(a) /\ ~IsNaN(b) /\ a >= b
Le(a, b) == ~IsNaN(a) /\ ~IsNaN(b) /\ a <= b

\* a - b
Sub(a, b) == IF IsNaN(a) \/ IsNaN(b) THEN NaN ELSE a - b

----------------------------------------------------------------------------
(* Signs, and binary digits of machine integers.                          *)

Sgn(x) == IF x > 0 THEN 1 ELSE IF x < 0 THEN -1 ELSE 0
Abs(x) == IF x < 0 THEN 0 - x ELSE x

\* floor of log2(n), n >= 1
RECURSIVE Log2(_)
Log2(n) == IF n < 2 THEN 0 ELSE 1 + Log2(n \div 2)

\* how often 2 divides n, n >= 1
RECURSIVE TwosIn(_)
TwosIn(n) == IF n % 2 = 1 THEN 0 ELSE 1 + TwosIn(n \div 2)

----------------------------------------------------------------------------
(* Natural numbers of any size: the digits in base Base, lowest first, no  *)
(* leading zero digit, none for 0.                                         *)

LimbBits == 14
Base == 2 ^ LimbBits
Half == 2 ^ 7

RECURSIVE Digits(_)
Digits(n) == IF n = 0 THEN << >> ELSE <<n % Base>> \o Digits(n \div Base)

Digit(m, i) == IF i >= 1 /\ i <= Len(m) THEN m[i] ELSE 0

\* m without its leading zero digits
RECURSIVE Trim(_)
Trim(m) ==
    IF Len(m) = 0 \/ m[Len(m)] # 0 THEN m ELSE Trim(SubSeq(m, 1, Len(m) - 1))

\* the digits of a + b + carry from digit i upwards
RECURSIVE AddFrom(_, _, _, _)
AddFrom(a, b, i, carry) ==
    IF i > Len(a) /\ i > Len(b) THEN Digits(carry)
    ELSE LET t == Digit(a, i) + Digit(b, i) + carry
         IN  <<t % Base>> \o AddFrom(a, b, i + 1, t \div Base)

MagAdd(a, b) == AddFrom(a, b, 1, 0)

\* the digits of a - b - borrow from digit i upwards, a >= b
RECURSIVE SubFrom(_, _, _, _)
SubFrom(a, b, i, borrow) ==
    IF i > Len(a) THEN << >>
    ELSE LET t == a[i] - Digit(b, i) - borrow
         IN  <<(t + Base) % Base>> \o SubFrom(a, b, i + 1, IF t < 0 THEN 1 ELSE 0)

MagSub(a, b) == Trim(SubFrom(a, b, 1, 0))

MagCmp(a, b) ==
    IF Len(a) # Len(b) THEN Sgn(Len(a) - Len(b))
    ELSE LET differ == {i \in 1 .. Len(a) : a[i] # b[i]}
         IN  IF differ = {} THEN 0
             ELSE LET top == CHOOSE i \in differ : \A j \in differ : j <= i
                  IN  Sgn(a[top] - b[top])

\* the sum of a[i] * b[k + 1 - i] for i in lo .. hi, by halves
RECURSIVE Products(_, _, _, _, _)
Products(a, b, k, lo, hi) ==
    IF lo > hi THEN 0
    ELSE IF lo = hi THEN a[lo] * b[k + 1 - lo]
    ELSE LET mid == (lo + hi) \div 2
         IN  Products(a, b, k, lo, mid) + Products(a, b, k, mid + 1, hi)

\* the digits of the place sums s from place i upwards, carry added
RECURSIVE Carried(_, _, _)
Carried(s, i, carry) ==
    IF i > Len(s) THEN Digits(carry)
    ELSE <<(s[i] + carry) % Base>> \o Carried(s, i + 1, (s[i] + carry) \div Base)

\* a * b: the sums of the digit products of each place (below 2^31 while the
\* shorter factor has at most 7 digits), then the carries
MagMul(a, b) ==
    IF Len(a) = 0 \/ Len(b) = 0 THEN << >>
    ELSE Carried(<< >> \o [k \in 1 .. (Len(a) + Len(b) - 1) |->
                              Products(a, b, k,
                                       IF k > Len(b) THEN k + 1 - Len(b) ELSE 1,
                                       IF k < Len(a) THEN k ELSE Len(a))],
                 1, 0)

\* <<digits of m \div q, m % q>> for 0 < q < 2^24, leading zero digits left
\* in; each digit is divided in two halves
RECURSIVE MagDiv(_, _)
MagDiv(m, q) ==
    IF Len(m) = 0 THEN <<<< >>, 0>>
    ELSE LET high == MagDiv(Tail(m), q)
             x == (high[2] * Half) + (m[1] \div Half)
             y == ((x % q) * Half) + (m[1] % Half)
         IN  <<<<((x \div q) * Half) + (y \div q)>> \o high[1], y % q>>

\* the number of binary digits of m
BitLen(m) ==
    IF Len(m) = 0 THEN 0 ELSE (LimbBits * (Len(m) - 1)) + Log2(m[Len(m)]) + 1

\* how often 2 divides m, m > 0
RECURSIVE MagTwos(_)
MagTwos(m) == IF m[1] # 0 THEN TwosIn(m[1]) ELSE LimbBits + MagTwos(Tail(m))

\* m * 2^k: each digit takes the low binary digits of the digit that moves
\* up to it and the high ones of the digit below that
MagShl(m, k) ==
    IF Len(m) = 0 THEN m
    ELSE LET limbs == k \div LimbBits
             low == 2 ^ (k % LimbBits)
             high == 2 ^ (LimbBits - (k % LimbBits))
         IN  Trim(<< >> \o [i \in 1 .. (Len(m) + limbs + 1) |->
                               ((Digit(m, i - limbs) % high) * low)
                                   + (Digit(m, i - limbs - 1) \div high)])

\* <<m \div 2^k, 1 if a 1 bit was dropped else 0>>
MagShr(m, k) ==
    LET limbs == k \div LimbBits
        low == 2 ^ (k % LimbBits)
        high == 2 ^ (LimbBits - (k % LimbBits))
    IN  <<Trim(<< >> \o [i \in 1 .. (Len(m) - limbs) |->
                            (Digit(m, i + limbs) \div low)
                                + ((Digit(m, i + limbs + 1) % low) * high)]),
          IF Digit(m, limbs + 1) % low # 0
                \/ (\E i \in 1 .. limbs : Digit(m, i) # 0) THEN 1 ELSE 0>>

\* the largest digit d <= guess with b * d <= r
RECURSIVE Fit(_, _, _)
Fit(b, r, guess) ==
    IF guess = 0 THEN 0
    ELSE IF guess >= Base THEN Fit(b, r, Base - 1)
    ELSE IF MagCmp(MagMul(b, <<guess>>), r) > 0 THEN Fit(b, r, guess - 1)
    ELSE guess

\* long division of the digits a[1 .. i] below the remainder rem by b, whose
\* highest digit is at least Base / 2, quot the digits of the quotient so
\* far: <<digits of the quotient, remainder>>
RECURSIVE DivFrom(_, _, _, _, _)

\* the next digit d of the quotient is known: on with the remainder r - b * d
DivStep(a, b, i, r, quot, d) ==
    IF d = 0 THEN DivFrom(a, b, i - 1, r, <<0>> \o quot)
    ELSE DivFrom(a, b, i - 1, MagSub(r, MagMul(b, <<d>>)), <<d>> \o quot)

\* the next digit is at most the two highest digits of r over the highest of b
DivDigit(a, b, i, r, quot) ==
    DivStep(a, b, i, r, quot,
            Fit(b, r, ((Digit(r, Len(b) + 1) * Base) + Digit(r, Len(b))) \div b[Len(b)]))

DivFrom(a, b, i, rem, quot) ==
    IF i = 0 THEN <<quot, rem>>
    ELSE DivDigit(a, b, i,
                  IF Len(rem) = 0 /\ a[i] = 0 THEN << >> ELSE <<a[i]>> \o rem, quot)

\* <<a \div b, 1 if a % b # 0 else 0>>, b > 0; the long division starts
\* below the digits of a that b has digits above its lowest, which are the
\* first remainder
ShortQuot(d) == <<Trim(d[1]), IF d[2] # 0 THEN 1 ELSE 0>>

LongQuot(d) == <<Trim(d[1]), IF Len(d[2]) # 0 THEN 1 ELSE 0>>

LongDiv(a, b) ==
    DivFrom(a, b, Len(a) - Len(b) + 1, SubSeq(a, Len(a) - Len(b) + 2, Len(a)), << >>)

MagQuot(a, b) ==
    IF BitLen(b) <= 24 THEN ShortQuot(MagDiv(a, Digit(b, 1) + (Digit(b, 2) * Base)))
    ELSE IF Len(a) < Len(b) THEN <<<< >>, 1>>
    ELSE LongQuot(LongDiv(MagShl(a, LimbBits - 1 - Log2(b[Len(b)])),
                          MagShl(b, LimbBits - 1 - Log2(b[Len(b)]))))

\* the largest n with n * n <= t, by Newton's iteration from above
RECURSIVE IntRoot(_, _)
IntRoot(t, r) ==
    LET y == (r + (t \div r)) \div 2 IN IF y >= r THEN r ELSE IntRoot(t, y)

RECURSIVE MagRootFrom(_, _)

\* Newton's iteration from r >= root: y the next value, the root once y >= r
RootStep(m, r, y) == IF MagCmp(y, r) >= 0 THEN r ELSE MagRootFrom(m, y)

MagRootFrom(m, r) == RootStep(m, r, MagShr(MagAdd(r, MagQuot(m, r)[1]), 1)[1])

\* one more than the root of the 28 or 29 binary digits t
TopRoot(t) == IntRoot(Digit(t, 1) + (Digit(t, 2) * Base), 2 ^ 15) + 1

MagRootAt(m, j) == MagRootFrom(m, MagShl(Digits(TopRoot(MagShr(m, 2 * j)[1])), j))

\* the largest r with r * r <= m, m > 0: started above it, from the root of
\* the leading 28 or 29 binary digits
MagRoot(m) == MagRootAt(m, IF BitLen(m) <= 28 THEN 0 ELSE (BitLen(m) - 27) \div 2)

----------------------------------------------------------------------------
(* IEEE-754 doubles, as the floats of Python, numpy and pandas are.        *)
(* A double is <<c, m, x>>: c = 1 or -1 with m the 53-digit binary         *)
(* mantissa stands for c * m * 2^x; <<0, << >>, 0>> is zero, <<2, << >>,   *)
(* 0>> NaN, <<3, << >>, 0>> +inf and <<-3, << >>, 0>> -inf.  Every         *)
(* operation rounds its exact result to the nearest double, ties to the    *)
(* even mantissa.  (No value of the strategy reaches the exponent range's  *)
(* ends; the sign of a zero is not kept.)                                  *)

Precision == 53

FNaN == <<2, << >>, 0>>

\* the mantissa of 1 and of every power of two
Unit == MagShl(<<1>>, Precision - 1)
FZero == <<0, << >>, 0>>
FInf(c) == <<3 * c, << >>, 0>>
FIsNaN(f) == f[1] = 2
FIsInf(f) == f[1] = 3 \/ f[1] = -3

\* q = <<mantissa, the binary digit below it>>, sticky = 1 when a lower 1
\* was dropped: the mantissa, one added when the dropped part is above a
\* half, or is a half and the mantissa is odd
Nearest(q, sticky) ==
    IF q[2] = 1 /\ (sticky = 1 \/ q[1][1] % 2 = 1) THEN MagAdd(q[1], <<1>>) ELSE q[1]

\* kept = <<mantissa and one more binary digit, sticky>>
Halved(kept) == Nearest(MagShr(kept[1], 1), kept[2])

\* the rounded mantissa r may have grown to one binary digit more
Renormed(c, r, x) ==
    IF BitLen(r) > Precision THEN <<c, MagShr(r, 1)[1], x + 1>> ELSE <<c, r, x>>

RoundBits(c, m, x, bits) ==
    IF bits <= Precision
    THEN <<c, MagShl(m, Precision - bits), x - (Precision - bits)>>
    ELSE Renormed(c, Halved(MagShr(m, bits - Precision - 1)), x + (bits - Precision))

\* c * m * 2^x rounded to a double, m > 0
Round(c, m, x) == RoundBits(c, m, x, BitLen(m))

\* an integer-valued cell as a float (below 2^24 the mantissa is written
\* out: the integer moved up to 25 binary digits, over two zero digits)
Num(n) ==
    IF IsNaN(n) THEN FNaN
    ELSE IF n = 0 THEN FZero
    ELSE IF Abs(n) < 2 ^ 24
    THEN LET t == Abs(n) * (2 ^ (24 - Log2(Abs(n))))
         IN  <<Sgn(n), <<0, 0, t % Base, t \div Base>>, Log2(Abs(n)) + 1 - Precision>>
    ELSE Round(Sgn(n), Digits(Abs(n)), 0)

FNeg(f) == IF FIsNaN(f) THEN f ELSE <<0 - f[1], f[2], f[3]>>

\* -1, 0 or 1 as a is below, equal to or above b; neither is NaN
FCmp(a, b) ==
    IF a[1] # b[1] THEN Sgn(a[1] - b[1])
    ELSE IF a[3] # b[3] THEN a[1] * Sgn(a[3] - b[3])
    ELSE a[1] * MagCmp(a[2], b[2])

\* a > b and a < b on floats: False as soon as one side is NaN
FGt(a, b) == ~FIsNaN(a) /\ ~FIsNaN(b) /\ FCmp(a, b) = 1
FLt(a, b) == ~FIsNaN(a) /\ ~FIsNaN(b) /\ FCmp(a, b) = -1

\* a + b for the mantissas ma and mb of a and b at the exponent x, ma # mb
\* when the signs differ
AddAligned(a, b, ma, mb, x) ==
    IF a[1] = b[1] THEN Round(a[1], MagAdd(ma, mb), x)
    ELSE IF MagCmp(ma, mb) > 0 THEN Round(a[1], MagSub(ma, mb), x)
    ELSE Round(b[1], MagSub(mb, ma), x)

AddAt(a, b, x) == AddAligned(a, b, MagShl(a[2], a[3] - x), MagShl(b[2], b[3] - x), x)

\* a + b
FAdd(a, b) ==
    IF FIsNaN(a) \/ FIsNaN(b) THEN FNaN
    ELSE IF FIsInf(a) THEN (IF b[1] = 0 - a[1] THEN FNaN ELSE a)
    ELSE IF FIsInf(b) \/ a[1] = 0 THEN b
    ELSE IF b[1] = 0 \/ a[3] - b[3] > Precision + 2 THEN a
    ELSE IF a[1] = 0 - b[1] /\ a[3] = b[3] /\ a[2] = b[2] THEN FZero
    ELSE IF b[3] - a[3] > Precision + 2 THEN b
    ELSE AddAt(a, b, IF a[3] < b[3] THEN a[3] ELSE b[3])

\* a - b
FSub(a, b) == FAdd(a, FNeg(b))

\* a * b
FMul(a, b) ==
    IF FIsNaN(a) \/ FIsNaN(b) THEN FNaN
    ELSE IF FIsInf(a) \/ FIsInf(b)
    THEN (IF a[1] = 0 \/ b[1] = 0 THEN FNaN ELSE FInf(Sgn(a[1]) * Sgn(b[1])))
    ELSE IF a[1] = 0 \/ b[1] = 0 THEN FZero
    ELSE Round(a[1] * b[1], MagMul(a[2], b[2]), a[3] + b[3])

\* q = <<quotient or root, 1 when it is not exact>>: q[1] with one more binary
\* digit that is set when q is not exact, rounded
Inexact(c, q, x) == Round(c, MagAdd(MagShl(q[1], 1), Digits(q[2])), x)

\* a / b, the mantissa of b being odd * 2^t
DivOdd(a, b, t, odd) ==
    Inexact(a[1] * b[1], MagQuot(MagShl(a[2], BitLen(odd) + 3), odd),
            a[3] - b[3] - t - BitLen(odd) - 4)

\* a / b: the quotient of the mantissas to three binary digits more than a
\* double holds, the last one set when the division left a remainder
FDiv(a, b) ==
    IF FIsNaN(a) \/ FIsNaN(b) THEN FNaN
    ELSE IF FIsInf(a)
    THEN (IF FIsInf(b) THEN FNaN ELSE FInf(Sgn(a[1]) * (IF b[1] < 0 THEN -1 ELSE 1)))
    ELSE IF FIsInf(b) THEN FZero
    ELSE IF b[1] = 0 THEN (IF a[1] = 0 THEN FNaN ELSE FInf(a[1]))
    ELSE IF a[1] = 0 THEN FZero
    ELSE IF a[2] = b[2] THEN <<a[1] * b[1], Unit, a[3] - b[3] - (Precision - 1)>>
    ELSE DivOdd(a, b, MagTwos(b[2]), MagShr(b[2], MagTwos(b[2]))[1])

\* r the root of m rounded down
RootRounded(m, r, x) ==
    IF MagCmp(MagMul(r, r), m) = 0 THEN Inexact(1, <<r, 0>>, x)
    ELSE Inexact(1, <<r, 1>>, x)

\* the mantissa moved up by k binary digits, the exponent then even
SqrtAt(a, k) ==
    RootRounded(MagShl(a[2], k), MagRoot(MagShl(a[2], k)), ((a[3] - k) \div 2) - 1)

\* sqrt(a): the root of the mantissa to three binary digits more than a
\* double holds, the last one set when the root is not exact
FSqrt(a) ==
    IF FIsNaN(a) \/ a[1] < 0 THEN FNaN
    ELSE IF FIsInf(a) \/ a[1] = 0 THEN a
    ELSE SqrtAt(a, Precision + 5 + ((a[3] + Precision + 5) % 2))

\* the double nearest to n / d
Ratio(n, d) == FDiv(Num(n), Num(d))

\* a decimal literal or DecimalParameter value, given in 1 / Scale
Dec(k) == Ratio(k, Scale)

\* q - 1
MinusOne(q) == FSub(q, Num(1))

----------------------------------------------------------------------------
(* Series operations.                                                      *)

Idx(s) == 1 .. Len(s)

\* Shift reading k places later instead of earlier (shift(-k))
ShiftAhead(s, k) == [i \in Idx(s) |-> IF i + k <= Len(s) THEN s[i + k] ELSE NaN]

\* Series.shift(k): position i takes the value k places earlier, NaN before
Shift(s, k) == [i \in Idx(s) |-> IF i > k THEN s[i - k] ELSE NaN]

RECURSIVE SumRange(_, _, _)
SumRange(s, lo, hi) == IF lo > hi THEN 0 ELSE s[hi] + SumRange(s, lo, hi - 1)

\* Series.rolling(window=w).mean(): NaN until w values are in the window
RollingMean(s, w) ==
    [i \in Idx(s) |->
        IF i < w \/ (\E j \in (i - w + 1) .. i : IsNaN(s[j])) THEN FNaN
        ELSE Ratio(SumRange(s, i - w + 1, i), w)]

\* an integer-valued series as floats
NumSeries(s) == [i \in Idx(s) |-> Num(s[i])]

\* element-wise a - b of two integer-valued series, a / b of two float series
SeriesSub(a, b) == [i \in Idx(a) |-> Sub(a[i], b[i])]
SeriesDiv(a, b) == [i \in Idx(a) |-> FDiv(a[i], b[i])]

\* dataframe[col] = series
SetCol(df, col, s) == [c \in (DOMAIN df) \cup {col} |-> IF c = col THEN s ELSE df[c]]

\* dataframe.loc[mask, col] = val: creates col (NaN elsewhere) when absent
LocAssign(df, mask, col, val) ==
    IF col \in DOMAIN df
    THEN [df EXCEPT ![col] = [i \in Idx(@) |-> IF mask[i] THEN val ELSE @[i]]]
    ELSE SetCol(df, col, [i \in Idx(mask) |-> IF mask[i] THEN val ELSE NaN])

NRows(df) == Len(df["close"])

----------------------------------------------------------------------------
(* Constants of the strategy.                                              *)

VolumeWindow == 20
MomentumPeriods == 5
EntryMomentum == 100
ExitMomentum == 200
AdxMin == 25
StochHigh == 80
StochLow == 20
WilliamsHigh == -20
WilliamsLow == -80
CciHigh == 100
CciLow == -100
BbEntryHigh == 8000
BbEntryLow == 2000
BbExitHigh == 9000
BbExitLow == 1000

\* the float literals of the comparisons (0.01, -0.01, 0.02, -0.02, 0.8, 0.2,
\* 0.9, 0.1)
EntryMomentumLit == Dec(EntryMomentum)
EntryMomentumNegLit == Dec(0 - EntryMomentum)
ExitMomentumLit == Dec(ExitMomentum)
ExitMomentumNegLit == Dec(0 - ExitMomentum)
BbEntryHighLit == Dec(BbEntryHigh)
BbEntryLowLit == Dec(BbEntryLow)
BbExitHighLit == Dec(BbExitHigh)
BbExitLowLit == Dec(BbExitLow)

----------------------------------------------------------------------------
(* populate_indicators                                                     *)

\* MacdCross with the previous candle tested as "not above" instead of "<=",
\* which a NaN predecessor passes
MacdCrossNotAbove(macd, macdsignal) ==
    LET pm == Shift(macd, 1)
        ps == Shift(macdsignal, 1)
    IN  [i \in Idx(macd) |->
            IF Gt(macd[i], macdsignal[i]) /\ ~Gt(pm[i], ps[i]) THEN 1 ELSE 0]

\* np.where(macd > macdsignal & macd.shift(1) <= macdsignal.shift(1), 1, 0)
MacdCross(macd, macdsignal) ==
    LET pm == Shift(macd, 1)
        ps == Shift(macdsignal, 1)
    IN  [i \in Idx(macd) |->
            IF Gt(macd[i], macdsignal[i]) /\ Le(pm[i], ps[i]) THEN 1 ELSE 0]

\* MacdCrossDown with the first comparison left as in MacdCross
MacdCrossDownFlipped(macd, macdsignal) ==
    LET pm == Shift(macd, 1)
        ps == Shift(macdsignal, 1)
    IN  [i \in Idx(macd) |->
            IF Gt(macd[i], macdsignal[i]) /\ Ge(pm[i], ps[i]) THEN 1 ELSE 0]

\* np.where(macd < macdsignal & macd.shift(1) >= macdsignal.shift(1), 1, 0)
MacdCrossDown(macd, macdsignal) ==
    LET pm == Shift(macd, 1)
        ps == Shift(macdsignal, 1)
    IN  [i \in Idx(macd) |->
            IF Lt(macd[i], macdsignal[i]) /\ Ge(pm[i], ps[i]) THEN 1 ELSE 0]

\* the columns copied from the TA-Lib results
TaCols ==
    {"macd", "macdsignal", "macdhist", "rsi", "bb_lowerband", "bb_middleband",
     "bb_upperband", "ema_20", "ema_50", "adx", "stoch_k", "stoch_d",
     "williams_r", "cci"}

\* the columns taken from the TA-Lib results
WithTaCols(df, ta) ==
    [c \in (DOMAIN df) \cup TaCols |-> IF c \in TaCols THEN ta[c] ELSE df[c]]

\* bb_upperband - bb_lowerband
BandRange(df) == NumSeries(SeriesSub(df["bb_upperband"], df["bb_lowerband"]))

WithBbPercent(df) ==
    SetCol(df, "bb_percent",
           SeriesDiv(NumSeries(SeriesSub(df["close"], df["bb_lowerband"])), BandRange(df)))

WithBbWidth(df) ==
    SetCol(df, "bb_width", SeriesDiv(BandRange(df), NumSeries(df["bb_middleband"])))

WithVolumeMean(df) ==
    SetCol(df, "volume_mean", RollingMean(df["volume"], VolumeWindow))

WithVolumeRatio(df) ==
    SetCol(df, "volume_ratio", SeriesDiv(NumSeries(df["volume"]), df["volume_mean"]))

\* s / s.shift(periods) - 1, which is also Series.pct_change(periods)
PctChange(s, periods) ==
    [i \in Idx(s) |-> MinusOne(FDiv(Num(s[i]), Num(Shift(s, periods)[i])))]

WithPriceChange(df) ==
    SetCol(df, "price_change", PctChange(df["close"], MomentumPeriods))

WithPriceMomentum(df) ==
    SetCol(df, "price_momentum", PctChange(df["close"], MomentumPeriods))

WithMacdCross(df) ==
    SetCol(df, "macd_cross", MacdCross(df["macd"], df["macdsignal"]))

WithMacdCrossDown(df) ==
    SetCol(df, "macd_cross_down", MacdCrossDown(df["macd"], df["macdsignal"]))

\* the frame after each assignment of populate_indicators, in the code's order
WithIndicators(df, ta) ==
    WithMacdCrossDown(WithMacdCross(WithPriceMomentum(WithPriceChange(
        WithVolumeRatio(WithVolumeMean(WithBbWidth(WithBbPercent(WithTaCols(df, ta)))))))))

\* the rows from the first complete volume window on (dropna on volume_mean)
DropWarmup(df) ==
    [c \in DOMAIN df |->
        [i \in 1 .. (IF Len(df[c]) >= VolumeWindow THEN Len(df[c]) - VolumeWindow + 1 ELSE 0)
            |-> df[c][i + VolumeWindow - 1]]]

\* populate_indicators returning only the rows past the warm-up
populate_indicators_dropna ==
    /\ dataframe' = DropWarmup(WithIndicators(dataframe, talib))
    /\ UNCHANGED <<talib, params, call, ret>>

populate_indicators ==
    /\ dataframe' = WithIndicators(dataframe, talib)
    /\ UNCHANGED <<talib, params, call, ret>>

----------------------------------------------------------------------------
(* populate_entry_trend                                                    *)

\* LongEntryMask without the CCI filter
LongEntryMaskNoCci(df, p) ==
    [i \in Idx(df["close"]) |->
        /\ df["macd_cross"][i] = 1
        /\ FGt(df["volume_ratio"][i], Dec(p.volume_factor))
        /\ FGt(df["price_momentum"][i], EntryMomentumLit)
        /\ Lt(df["rsi"][i], p.rsi_overbought)
        /\ Gt(df["rsi"][i], p.rsi_oversold)
        /\ Gt(df["close"][i], df["ema_20"][i])
        /\ Gt(df["adx"][i], AdxMin)
        /\ Lt(df["stoch_k"][i], StochHigh)
        /\ Lt(df["stoch_d"][i], StochHigh)
        /\ Gt(df["williams_r"][i], WilliamsHigh)
        /\ FLt(df["bb_percent"][i], BbEntryHighLit)]

LongEntryMask(df, p) ==
    [i \in Idx(df["close"]) |->
        /\ df["macd_cross"][i] = 1
        /\ FGt(df["volume_ratio"][i], Dec(p.volume_factor))
        /\ FGt(df["price_momentum"][i], EntryMomentumLit)
        /\ Lt(df["rsi"][i], p.rsi_overbought)
        /\ Gt(df["rsi"][i], p.rsi_oversold)
        /\ Gt(df["close"][i], df["ema_20"][i])
        /\ Gt(df["adx"][i], AdxMin)
        /\ Lt(df["stoch_k"][i], StochHigh)
        /\ Lt(df["stoch_d"][i], StochHigh)
        /\ Gt(df["williams_r"][i], WilliamsHigh)
        /\ Lt(df["cci"][i], CciHigh)
        /\ FLt(df["bb_percent"][i], BbEntryHighLit)]

ShortEntryMask(df, p) ==
    [i \in Idx(df["close"]) |->
        /\ df["macd_cross_down"][i] = 1
        /\ FGt(df["volume_ratio"][i], Dec(p.volume_factor))
        /\ FLt(df["price_momentum"][i], EntryMomentumNegLit)
        /\ Gt(df["rsi"][i], p.rsi_oversold)
        /\ Lt(df["rsi"][i], p.rsi_overbought)
        /\ Lt(df["close"][i], df["ema_20"][i])
        /\ Gt(df["adx"][i], AdxMin)
        /\ Gt(df["stoch_k"][i], StochLow)
        /\ Gt(df["stoch_d"][i], StochLow)
        /\ Lt(df["williams_r"][i], WilliamsLow)
        /\ Gt(df["cci"][i], CciLow)
        /\ FGt(df["bb_percent"][i], BbEntryLowLit)]

WithEntries(df, p) ==
    LocAssign(LocAssign(df, LongEntryMask(df, p), "enter_long", 1),
              ShortEntryMask(df, p), "enter_short", 1)

populate_entry_trend ==
    /\ "macd_cross" \in DOMAIN dataframe
    /\ dataframe' = WithEntries(dataframe, params)
    /\ UNCHANGED <<talib, params, call, ret>>

----------------------------------------------------------------------------
(* populate_exit_trend                                                     *)

\* LongExitMask with rows holding a NaN oscillator dropped first
LongExitMaskDropNaN(df, p) ==
    [i \in Idx(df["close"]) |->
        /\ \A c \in {"rsi", "stoch_k", "stoch_d", "williams_r", "cci"} : ~IsNaN(df[c][i])
        /\ \A c \in {"bb_percent", "price_momentum"} : ~FIsNaN(df[c][i])
        /\ \/ df["macd_cross_down"][i] = 1
           \/ Gt(df["rsi"][i], p.rsi_overbought)
           \/ FGt(df["bb_percent"][i], BbExitHighLit)
           \/ Gt(df["stoch_k"][i], StochHigh)
           \/ Gt(df["stoch_d"][i], StochHigh)
           \/ Lt(df["williams_r"][i], WilliamsHigh)
           \/ Gt(df["cci"][i], CciHigh)
           \/ FLt(df["price_momentum"][i], ExitMomentumNegLit)]

\* LongExitMask with the Williams %R test turned round (> -20)
LongExitMaskWilliamsAbove(df, p) ==
    [i \in Idx(df["close"]) |->
        \/ df["macd_cross_down"][i] = 1
        \/ Gt(df["rsi"][i], p.rsi_overbought)
        \/ FGt(df["bb_percent"][i], BbExitHighLit)
        \/ Gt(df["stoch_k"][i], StochHigh)
        \/ Gt(df["stoch_d"][i], StochHigh)
        \/ Gt(df["williams_r"][i], WilliamsHigh)
        \/ Gt(df["cci"][i], CciHigh)
        \/ FLt(df["price_momentum"][i], ExitMomentumNegLit)]

LongExitMask(df, p) ==
    [i \in Idx(df["close"]) |->
        \/ df["macd_cross_down"][i] = 1
        \/ Gt(df["rsi"][i], p.rsi_overbought)
        \/ FGt(df["bb_percent"][i], BbExitHighLit)
        \/ Gt(df["stoch_k"][i], StochHigh)
        \/ Gt(df["stoch_d"][i], StochHigh)
        \/ Lt(df["williams_r"][i], WilliamsHigh)
        \/ Gt(df["cci"][i], CciHigh)
        \/ FLt(df["price_momentum"][i], ExitMomentumNegLit)]

ShortExitMask(df, p) ==
    [i \in Idx(df["close"]) |->
        \/ df["macd_cross"][i] = 1
        \/ Lt(df["rsi"][i], p.rsi_oversold)
        \/ FLt(df["bb_percent"][i], BbExitLowLit)
        \/ Lt(df["stoch_k"][i], StochLow)
        \/ Lt(df["stoch_d"][i], StochLow)
        \/ Gt(df["williams_r"][i], WilliamsLow)
        \/ Lt(df["cci"][i], CciLow)
        \/ FGt(df["price_momentum"][i], ExitMomentumLit)]

WithExits(df, p) ==
    LocAssign(LocAssign(df, LongExitMask(df, p), "exit_long", 1),
              ShortExitMask(df, p), "exit_short", 1)

populate_exit_trend ==
    /\ "macd_cross" \in DOMAIN dataframe
    /\ dataframe' = WithExits(dataframe, params)
    /\ UNCHANGED <<talib, params, call, ret>>
----------------------------------------------------------------------------
(* The frames the host hands in, and the parameter values.                 *)
(*                                                                         *)
(* A frame has n candles.  All but the last two are warm-up candles: flat  *)
(* price and volume, TA-Lib results still NaN.  The last candle starts     *)
(* from one of three base rows (a long set-up, a short set-up, a warm-up   *)
(* row) and has one of its readings replaced by any value of that          *)
(* reading's domain, or two of them on a full-length frame with a set-up   *)
(* row; the MACD pair of the candle before it counts among the readings.   *)
(* TA-Lib is a library outside the repository: what it returns is an       *)
(* input of the model, not computed from the candles.                      *)

MaxLen == 21
Lens == {1, 2, MomentumPeriods + 1, VolumeWindow, MaxLen}

LongRow ==
    [close |-> 1100, volume |-> 4000, prev_macd |-> -5, prev_macdsignal |-> 0,
     macd |-> 5, macdsignal |-> 0, rsi |-> 50, bb |-> <<500, 1000>>,
     ema |-> -50, adx |-> 30, stoch_k |-> 50, stoch_d |-> 50,
     williams_r |-> -10, cci |-> 0]

ShortRow ==
    [close |-> 900, volume |-> 4000, prev_macd |-> 5, prev_macdsignal |-> 0,
     macd |-> -5, macdsignal |-> 0, rsi |-> 50, bb |-> <<500, 1000>>,
     ema |-> 50, adx |-> 30, stoch_k |-> 50, stoch_d |-> 50,
     williams_r |-> -90, cci |-> 0]

WarmRow ==
    [close |-> 1000, volume |-> 1000, prev_macd |-> NaN,
     prev_macdsignal |-> NaN, macd |-> NaN, macdsignal |-> NaN, rsi |-> NaN,
     bb |-> <<NaN, 1000>>, ema |-> NaN, adx |-> NaN, stoch_k |-> NaN,
     stoch_d |-> NaN, williams_r |-> NaN, cci |-> NaN]

BaseRows == {LongRow, ShortRow, WarmRow}

\* the values each reading is drawn from: NaN, both sides of every threshold
\* it is compared with, and the thresholds themselves (closes 1 % and 2 % away
\* from the close five candles before; volumes just below and just above 1.5
\* times a mean that is not a whole number)
Domain(f) ==
    CASE f = "close" -> {900, 980, 985, 990, 1000, 1010, 1015, 1020, 1100}
      [] f = "volume" -> {0, 1000, 1540, 1541, 4000}
      [] f \in {"macd", "prev_macd"} -> {NaN, -5, 0, 5}
      [] f \in {"macdsignal", "prev_macdsignal"} -> {NaN, 0}
      [] f = "rsi" -> {NaN, 10, 30, 50, 70, 90}
      [] f = "bb" -> {<<NaN, 1000>>, <<0, 0>>, <<10, 0>>, <<50, 1000>>,
                      <<150, 1000>>, <<500, 1000>>, <<800, 1000>>,
                      <<850, 1000>>, <<950, 1000>>}
      [] f = "ema" -> {NaN, -50, 0, 50}
      [] f = "adx" -> {NaN, 20, 25, 30}
      [] f \in {"stoch_k", "stoch_d"} -> {NaN, 10, 20, 50, 80, 90}
      [] f = "williams_r" -> {NaN, -90, -80, -50, -20, -10}
      [] f = "cci" -> {NaN, -150, -100, 0, 100, 150}

Readings ==
    <<"close", "volume", "prev_macd", "prev_macdsignal", "macd", "macdsignal",
      "rsi", "bb", "ema", "adx", "stoch_k", "stoch_d", "williams_r", "cci">>
Replace(row, f, v) == [row EXCEPT ![f] = v]

\* warm-up candles take WarmRow; the candle before the last takes the last
\* row's prev_macd / prev_macdsignal and is otherwise a warm-up candle
RowAt(n, i, last) ==
    IF i = n THEN last
    ELSE IF i = n - 1
         THEN [WarmRow EXCEPT !.macd = last.prev_macd,
                              !.macdsignal = last.prev_macdsignal]
         ELSE WarmRow

Add(a, b) == IF IsNaN(a) \/ IsNaN(b) THEN NaN ELSE a + b

\* the OHLCV candles the host supplies
Candles(n, last) ==
    [c \in {"date", "open", "high", "low", "close", "volume"} |->
        [i \in 1 .. n |->
            LET r == RowAt(n, i, last) IN
            CASE c = "date" -> i
              [] c = "open" -> r.close
              [] c = "high" -> r.close + 10
              [] c = "low" -> r.close - 10
              [] c = "close" -> r.close
              [] c = "volume" -> r.volume]]

\* what ta.MACD, ta.RSI, ta.BBANDS, ta.EMA, ta.ADX, ta.STOCH, ta.WILLR and
\* ta.CCI return for those candles
TaResults(n, last) ==
    [c \in TaCols |->
        [i \in 1 .. n |->
            LET r == RowAt(n, i, last)
                lower == Sub(r.close, r.bb[1])
            IN
            CASE c = "macd" -> r.macd
              [] c = "macdsignal" -> r.macdsignal
              [] c = "macdhist" -> Sub(r.macd, r.macdsignal)
              [] c = "rsi" -> r.rsi
              [] c = "bb_lowerband" -> lower
              [] c = "bb_middleband" -> Add(lower, r.bb[2] \div 2)
              [] c = "bb_upperband" -> Add(lower, r.bb[2])
              [] c = "ema_20" -> Add(r.close, r.ema)
              [] c = "ema_50" -> Add(r.close, r.ema)
              [] c = "adx" -> r.adx
              [] c = "stoch_k" -> r.stoch_k
              [] c = "stoch_d" -> r.stoch_d
              [] c = "williams_r" -> r.williams_r
              [] c = "cci" -> r.cci]]

\* the defaults of the hyperopt parameters
DefaultParams ==
    [volume_factor |-> 15000, rsi_oversold |-> 30, rsi_overbought |-> 70,
     base_leverage |-> 10, max_leverage |-> 20, volatility_threshold |-> 500]

\* volume_factor (in 1 / Scale), rsi_oversold, rsi_overbought: the defaults and
\* the corners of the declared ranges; the leverage parameters at their defaults
SignalParams ==
    {[volume_factor |-> v, rsi_oversold |-> lo, rsi_overbought |-> hi,
      base_leverage |-> 10, max_leverage |-> 20, volatility_threshold |-> 500] :
        <<v, lo, hi>> \in {<<15000, 30, 70>>, <<10000, 20, 60>>, <<30000, 40, 80>>}}

NoCall == [op |-> "none"]

Init ==
    \E n \in Lens, base \in BaseRows, p \in SignalParams,
       k1 \in 1 .. Len(Readings), k2 \in 1 .. Len(Readings) :
        /\ k1 <= k2
        /\ ((n < MaxLen \/ base = WarmRow) => k1 = k2)
        /\ (k1 < k2 => p = DefaultParams)
        /\ \E v1 \in Domain(Readings[k1]), v2 \in Domain(Readings[k2]) :
            /\ (k1 = k2 => v1 = v2)
            /\ LET last == Replace(Replace(base, Readings[k1], v1), Readings[k2], v2) IN
                /\ dataframe = Candles(n, last)
                /\ talib = TaResults(n, last)
        /\ params = p
        /\ call = NoCall
        /\ ret = NaN

Next ==
    \/ populate_indicators
    \/ populate_entry_trend
    \/ populate_exit_trend

Spec == Init /\ [][Next]_vars

\* frame a followed by frame b, the candles numbered through
FrameThen(a, b) ==
    [c \in DOMAIN a |->
        [i \in 1 .. (Len(a[c]) + Len(b[c])) |->
            IF c = "date" THEN i
            ELSE IF i <= Len(a[c]) THEN a[c][i] ELSE b[c][i - Len(a[c])]]]

\* how many candles follow the varied one
Tails == {0, 1, MomentumPeriods}

\* frames whose later candles differ from the earlier ones: a frame of Init
\* with one reading of its last candle replaced, followed by no further
\* candle, or by warm-up candles ending in a set-up candle
InitCausal ==
    \E n \in Lens, base \in BaseRows, k \in 1 .. Len(Readings), m \in Tails,
       after \in {LongRow, ShortRow} :
        \E v \in Domain(Readings[k]) :
            /\ (m = 0 => after = LongRow)
            /\ LET last == Replace(base, Readings[k], v) IN
                /\ dataframe = FrameThen(Candles(n, last), Candles(m, after))
                /\ talib = FrameThen(TaResults(n, last), TaResults(m, after))
            /\ params = [volume_factor |-> 15000, rsi_oversold |-> 30,
                         rsi_overbought |-> 70, base_leverage |-> 10,
                         max_leverage |-> 20, volatility_threshold |-> 500]
            /\ call = NoCall
            /\ ret = NaN

SpecCausal == InitCausal /\ [][Next]_vars

LongestLookback == 50

\* frame lengths below, at and above the longest look-back, the five candles
\* of the insufficient-data test among them
LookbackLens ==
    {1, 2, MomentumPeriods, VolumeWindow, LongestLookback - 1, LongestLookback,
     LongestLookback + 1}

InitLengths ==
    \E n \in LookbackLens, last \in BaseRows, p \in SignalParams :
        /\ dataframe = Candles(n, last)
        /\ talib = TaResults(n, last)
        /\ params = p
        /\ call = NoCall
        /\ ret = NaN

SpecLengths == InitLengths /\ [][Next]_vars
----------------------------------------------------------------------------
(* leverage                                                                *)

MinCandles == 20
AtrWindow == 14
DefaultAtrVolatility == 200
HighVolMultiplier == 5000
MediumVolMultiplier == 7500

MediumVolFraction == 7000

----------------------------------------------------------------------------
(* The volatility leverage() reads.                                        *)

\* s[i] / s[i - 1] - 1 with the undefined values removed:
\* Series.pct_change().dropna()
PctChangeDropNa(s) == SelectSeq(PctChange(s, 1), LAMBDA x : ~FIsNaN(x))

\* acc + s[i] + s[i + step] + ... up to s[hi], added in that order; a sum
\* that is NaN stays NaN whatever is added to it
RECURSIVE SumFrom(_, _, _, _, _)
SumFrom(acc, s, i, hi, step) ==
    IF i > hi THEN acc
    ELSE LET t == FAdd(acc, s[i])
         IN  IF FIsNaN(t) THEN t ELSE SumFrom(t, s, i + step, hi, step)

\* numpy's sum of the n floats from s[lo] on (add.reduce on a contiguous
\* array): in order below 8 values; up to 128 values in eight interleaved
\* partial sums that are added in pairs, the values past the last full group
\* of eight added after; above that the sums of two parts
\* the eight partial sums of s[lo .. hi]: the j-th adds every eighth value
\* from s[lo + j - 1] on
Lanes(s, lo, hi) ==
    << >> \o [j \in 1 .. 8 |-> SumFrom(s[lo + j - 1], s, lo + j + 7, hi, 8)]

\* ((r[1] + r[2]) + (r[3] + r[4])) + ((r[5] + r[6]) + (r[7] + r[8]))
LanesSum(r) ==
    FAdd(FAdd(FAdd(r[1], r[2]), FAdd(r[3], r[4])),
         FAdd(FAdd(r[5], r[6]), FAdd(r[7], r[8])))

\* the first `full` values in eight lanes, the others added after
BlockSum(s, lo, n, full) ==
    SumFrom(LanesSum(Lanes(s, lo, lo + full - 1)), s, lo + full, lo + n - 1, 1)

RECURSIVE PairwiseSum(_, _, _)
PairwiseSum(s, lo, n) ==
    IF n < 8 THEN SumFrom(FZero, s, lo, lo + n - 1, 1)
    ELSE IF n <= 128 THEN BlockSum(s, lo, n, n - (n % 8))
    ELSE LET half == (n \div 2) - ((n \div 2) % 8)
         IN  FAdd(PairwiseSum(s, lo, half), PairwiseSum(s, lo + half, n - half))

\* Series.std() as pandas computes it (nanops.nanstd, ddof = 1): NaN on fewer
\* than two values; else the mean is the sum over the count, the variance the
\* sum of the squares of mean - value over the count less one, and the
\* deviation its square root. A mean that is NaN makes every square NaN.
Mean(s) == FDiv(PairwiseSum(s, 1, Len(s)), Num(Len(s)))

\* sqr = (avg - values) ** 2
Squares(s, avg) ==
    << >> \o [i \in Idx(s) |-> LET d == FSub(avg, s[i]) IN FMul(d, d)]

StdAround(s, avg) ==
    IF FIsNaN(avg) THEN FNaN
    ELSE FSqrt(FDiv(PairwiseSum(Squares(s, avg), 1, Len(s)), Num(Len(s) - 1)))

Std(s) == IF Len(s) < 2 THEN FNaN ELSE StdAround(s, Mean(s))

RECURSIVE MaxRange(_, _, _)
MaxRange(s, lo, hi) ==
    IF lo = hi THEN s[hi]
    ELSE LET m == MaxRange(s, lo, hi - 1) IN IF s[hi] > m THEN s[hi] ELSE m

RECURSIVE MinRange(_, _, _)
MinRange(s, lo, hi) ==
    IF lo = hi THEN s[hi]
    ELSE LET m == MinRange(s, lo, hi - 1) IN IF s[hi] < m THEN s[hi] ELSE m

\* Series.rolling(w).max() / .min()
RollingMax(s, w) ==
    [i \in Idx(s) |->
        IF i < w \/ (\E j \in (i - w + 1) .. i : IsNaN(s[j])) THEN NaN
        ELSE MaxRange(s, i - w + 1, i)]

RollingMin(s, w) ==
    [i \in Idx(s) |->
        IF i < w \/ (\E j \in (i - w + 1) .. i : IsNaN(s[j])) THEN NaN
        ELSE MinRange(s, i - w + 1, i)]

\* recent_returns.std()
Volatility(df) == Std(PctChangeDropNa(df["close"]))

\* atr.iloc[-1] / close.iloc[-1], atr the 14-candle high-low range
AtrVolatility(df) ==
    LET atr == SeriesSub(RollingMax(df["high"], AtrWindow),
                         RollingMin(df["low"], AtrWindow))
    IN  IF Len(atr) > 0
        THEN FDiv(Num(atr[Len(atr)]), Num(df["close"][Len(df["close"])]))
        ELSE Dec(DefaultAtrVolatility)

\* Python's max(a, b): b when b > a, else a
PyMax(a, b) == IF Gt(b, a) THEN b ELSE a
PyMin(a, b) == IF Lt(b, a) THEN b ELSE a

\* Python's max(a, b) on floats: b when b > a, else a
FMax(a, b) == IF FGt(b, a) THEN b ELSE a

\* CombinedVolatility reading the returns' deviation alone
CombinedVolatilityStdOnly(df) == Volatility(df)

\* max(volatility, atr_volatility)
CombinedVolatility(df) == FMax(Volatility(df), AtrVolatility(df))

\* self.volatility_threshold.value * 0.7
ThresholdProduct(threshold) == FMul(Dec(threshold), Dec(MediumVolFraction))

\* the multiplier, in 1 / Scale
LeverageMultiplier(p, combined) ==
    IF FGt(combined, Dec(p.volatility_threshold)) THEN HighVolMultiplier
    ELSE IF FGt(combined, ThresholdProduct(p.volatility_threshold))
    THEN MediumVolMultiplier
    ELSE Scale

\* FinalLeverage without the host's max_leverage in the min()
FinalLeverageNoHostCap(p, multiplier, host_max) ==
    PyMax(Scale, PyMin(p.base_leverage * multiplier, p.max_leverage * Scale))

\* max(1, min(calculated_leverage, self.max_leverage.value, max_leverage))
FinalLeverage(p, multiplier, host_max) ==
    PyMax(Scale,
          PyMin(PyMin(p.base_leverage * multiplier, p.max_leverage * Scale), host_max))

\* ShortHistoryLeverage capped by the host's max_leverage as well
ShortHistoryLeverageCapped(p, proposed, host_max) ==
    PyMin(PyMin(proposed, p.base_leverage * Scale), host_max)

\* min(proposed_leverage, self.base_leverage.value)
ShortHistoryLeverage(p, proposed, host_max) ==
    PyMin(proposed, p.base_leverage * Scale)

\* the value leverage() returns, in 1 / Scale
Leverage(df, p, proposed, host_max) ==
    IF NRows(df) < MinCandles THEN ShortHistoryLeverage(p, proposed, host_max)
    ELSE FinalLeverage(p, LeverageMultiplier(p, CombinedVolatility(df)), host_max)

ProposedLeverages == {5000, 30000, 250000}
HostMaxLeverages == {5000, 10000, 30000, 1000000}

leverage ==
    /\ call.op = "leverage"
    /\ ret' = Leverage(dataframe, params, call.proposed_leverage, call.max_leverage)
    /\ UNCHANGED <<dataframe, talib, params, call>>

\* the analyzed frame the data provider returns: the closes stand at
\* shape[1] before candle shape[4], at shape[2] on it and at shape[3] after
\* it (the step moves the returns' deviation, and lies outside the last 14
\* candles of a full frame), highs and lows a fixed spread away
LeverageCandles(n, shape, spread) ==
    [c \in {"date", "open", "high", "low", "close", "volume"} |->
        [i \in 1 .. n |->
            LET close == IF i < shape[4] THEN shape[1]
                         ELSE IF i = shape[4] THEN shape[2]
                         ELSE shape[3]
            IN
            CASE c = "date" -> i
              [] c = "open" -> close
              [] c = "high" -> close + spread
              [] c = "low" -> close - spread
              [] c = "close" -> close
              [] c = "volume" -> WarmRow.volume]]

LeverageLens == {1, MinCandles - 1, MinCandles, MaxLen}

FlatShape == <<WarmRow.close, WarmRow.close, WarmRow.close, 2>>

\* one displaced close: 1061 and 1062 put the deviation of a 20-candle frame
\* just below and just above 0.02, 1200 between 0.05 and 0.1, 1500 above 0.1
JoltShapes ==
    {<<1000, 1061, 1000, 2>>, <<1000, 1062, 1000, 2>>, <<1000, 1200, 1000, 2>>,
     <<1000, 1500, 1000, 2>>}

\* a return of +a and one of -a among zero returns: over 20 candles the
\* deviation is a / 3 in exact arithmetic, that is 0.02, 0.035 = 0.7 * 0.05
\* and 0.05, each a threshold of LeverageParams
TieShapes ==
    {<<10000, 10600, 9964, 2>>, <<10000, 10600, 9964, 6>>,
     <<40000, 44200, 39559, 2>>, <<10000, 11500, 9775, 2>>}

\* spreads on both sides of each tier; 7 and 35 put the range of a flat frame
\* at 0.7 times the thresholds 0.02 and 0.10, 10 at the threshold 0.02
Spreads == {0, 5, 7, 10, 20, 30, 35, 60}

LeverageFrames ==
    ({FlatShape} \X Spreads) \cup (JoltShapes \X {0, 20}) \cup (TieShapes \X {0})

LeverageParams ==
    [volume_factor : {15000}, rsi_oversold : {30}, rsi_overbought : {70},
     base_leverage : {5, 10, 20}, max_leverage : {10, 50},
     volatility_threshold : {200, 500, 1000}]

\* a full history is tried with one proposed leverage, which leverage() does
\* not read once it has 20 candles
InitLeverage ==
    \E n \in LeverageLens, frame \in LeverageFrames, p \in LeverageParams,
       proposed \in ProposedLeverages, host_max \in HostMaxLeverages :
        /\ (n >= MinCandles => proposed = 30000)
        /\ dataframe = LeverageCandles(n, frame[1], frame[2])
        /\ talib = << >>
        /\ params = p
        /\ call = [op |-> "leverage", proposed_leverage |-> proposed,
                   max_leverage |-> host_max]
        /\ ret = NaN

SpecLeverage == InitLeverage /\ [][leverage]_vars

----------------------------------------------------------------------------
(* custom_stoploss                                                         *)

Stoploss == -1000
GracePeriod == 600
HighProfit == 200
LowProfit == 100
HighProfitStop == 200
LowProfitStop == 150

\* CustomStoploss without the grace period
CustomStoplossNoGrace(trade, current_time, current_profit) ==
    IF trade.is_short
    THEN (IF current_profit > HighProfit THEN HighProfitStop
          ELSE IF current_profit > LowProfit THEN LowProfitStop
          ELSE Stoploss)
    ELSE (IF current_profit > HighProfit THEN 0 - HighProfitStop
          ELSE IF current_profit > LowProfit THEN 0 - LowProfitStop
          ELSE Stoploss)

\* CustomStoploss with the short side returning the long side's sign
CustomStoplossLongSign(trade, current_time, current_profit) ==
    IF current_time - trade.open_date_utc < GracePeriod THEN Stoploss
    ELSE IF current_profit > HighProfit THEN 0 - HighProfitStop
    ELSE IF current_profit > LowProfit THEN 0 - LowProfitStop
    ELSE Stoploss

\* CustomStoploss with the middle tier at 0.15 instead of 0.015
CustomStoplossWideMiddle(trade, current_time, current_profit) ==
    IF current_time - trade.open_date_utc < GracePeriod THEN Stoploss
    ELSE IF trade.is_short
    THEN (IF current_profit > HighProfit THEN HighProfitStop
          ELSE IF current_profit > LowProfit THEN 10 * LowProfitStop
          ELSE Stoploss)
    ELSE (IF current_profit > HighProfit THEN 0 - HighProfitStop
          ELSE IF current_profit > LowProfit THEN 0 - (10 * LowProfitStop)
          ELSE Stoploss)

\* the value custom_stoploss() returns, in 1 / Scale; times in seconds
CustomStoploss(trade, current_time, current_profit) ==
    IF current_time - trade.open_date_utc < GracePeriod THEN Stoploss
    ELSE IF trade.is_short
    THEN (IF current_profit > HighProfit THEN HighProfitStop
          ELSE IF current_profit > LowProfit THEN LowProfitStop
          ELSE Stoploss)
    ELSE (IF current_profit > HighProfit THEN 0 - HighProfitStop
          ELSE IF current_profit > LowProfit THEN 0 - LowProfitStop
          ELSE Stoploss)

MaxTime == 1500
MaxProfit == 300
Trades == [open_date_utc : {0, 300}, is_short : BOOLEAN]
Times == {0, 299, 300, 599, 600, 601, 899, 900, 901, MaxTime}
Profits == (0 - MaxProfit) .. MaxProfit

custom_stoploss ==
    /\ call.op = "custom_stoploss"
    /\ ret' = CustomStoploss(call.trade, call.current_time, call.current_profit)
    /\ UNCHANGED <<dataframe, talib, params, call>>

InitStoploss ==
    \E trade \in Trades, current_time \in Times, current_profit \in Profits :
        /\ dataframe = << >>
        /\ talib = << >>
        /\ params = DefaultParams
        /\ call = [op |-> "custom_stoploss", trade |-> trade,
                   current_time |-> current_time, current_profit |-> current_profit]
        /\ ret = NaN

SpecStoploss == InitStoploss /\ [][custom_stoploss]_vars

\* The host calls custom_stoploss again and again while a trade is open, at
\* later times and with whatever the profit then is.  The function keeps no
\* state; call.earlier records the call before, for the properties to read.
MaxProfitSteps == 6
TrailProfits == {k * 50 : k \in (0 - MaxProfitSteps) .. MaxProfitSteps}
TrailTimes == {0, GracePeriod, MaxTime}
TrailTrades == [open_date_utc : {0}, is_short : BOOLEAN]

custom_stoploss_again ==
    /\ call.op = "custom_stoploss"
    /\ ~IsNaN(ret)
    /\ \E current_time \in TrailTimes, current_profit \in TrailProfits :
        /\ current_time >= call.current_time
        /\ call' = [call EXCEPT !.current_time = current_time,
                                !.current_profit = current_profit,
                                !.earlier = [op |-> "custom_stoploss",
                                             current_time |-> call.current_time,
                                             current_profit |-> call.current_profit,
                                             ret |-> ret]]
        /\ ret' = CustomStoploss(call.trade, current_time, current_profit)
    /\ UNCHANGED <<dataframe, talib, params>>

InitTrailing ==
    \E trade \in TrailTrades, current_time \in TrailTimes, current_profit \in TrailProfits :
        /\ dataframe = << >>
        /\ talib = << >>
        /\ params = DefaultParams
        /\ call = [op |-> "custom_stoploss", trade |-> trade,
                   current_time |-> current_time, current_profit |-> current_profit,
                   earlier |-> NoCall]
        /\ ret = NaN

SpecTrailing == InitTrailing /\ [][custom_stoploss \/ custom_stoploss_again]_vars

----------------------------------------------------------------------------
(* Properties of the signal columns (under Spec).                          *)

Has(col) == col \in DOMAIN dataframe
Rows == 1 .. NRows(dataframe)
At(col, i) == dataframe[col][i]
Defined(col, i) == ~IsNaN(At(col, i))

\* the same for the columns computed in floats: the cell is not NaN; it is
\* above (below) the float y
FDefined(col, i) == ~FIsNaN(At(col, i))
Above(col, i, y) == FDefined(col, i) /\ FCmp(At(col, i), y) = 1
Below(col, i, y) == FDefined(col, i) /\ FCmp(At(col, i), y) = -1

\* the floats 0.01, -0.02, 0.8 and 0.9
OnePercent == Dec(100)
MinusTwoPercent == Dec(-200)
EightTenths == Dec(8000)
NineTenths == Dec(9000)

\* C1: after populate_exit_trend no position has exit_long = 1 and
\* exit_short = 1 together.
C1_ExitsNeverBoth ==
    (Has("exit_long") /\ Has("exit_short")) =>
        \A i \in Rows : ~(At("exit_long", i) = 1 /\ At("exit_short", i) = 1)

\* C2: after populate_entry_trend no position has enter_long = 1 and
\* enter_short = 1 together, and no position has macd_cross = 1 and
\* macd_cross_down = 1 together.
C2_EntriesNeverBoth ==
    /\ Has("macd_cross") =>
        \A i \in Rows : ~(At("macd_cross", i) = 1 /\ At("macd_cross_down", i) = 1)
    /\ (Has("enter_long") /\ Has("enter_short")) =>
        \A i \in Rows : ~(At("enter_long", i) = 1 /\ At("enter_short", i) = 1)

\* a frame with both entry columns where a short entry fired
C2_Witness ==
    /\ Has("enter_long") /\ Has("enter_short")
    /\ \E i \in Rows : At("enter_short", i) = 1

\* the ten conditions of the long entry, in the claim's words
LongEntryHolds(i) ==
    /\ At("macd_cross", i) = 1
    /\ Above("volume_ratio", i, Dec(params.volume_factor))
    /\ Above("price_momentum", i, OnePercent)
    /\ Defined("rsi", i)
    /\ params.rsi_oversold < At("rsi", i) /\ At("rsi", i) < params.rsi_overbought
    /\ Defined("ema_20", i) /\ At("close", i) > At("ema_20", i)
    /\ Defined("adx", i) /\ At("adx", i) > 25
    /\ Defined("stoch_k", i) /\ At("stoch_k", i) < 80
    /\ Defined("stoch_d", i) /\ At("stoch_d", i) < 80
    /\ Defined("williams_r", i) /\ At("williams_r", i) > -20
    /\ Defined("cci", i) /\ At("cci", i) < 100
    /\ Below("bb_percent", i, EightTenths)

\* C8: on a frame that carried no signal columns, populate_entry_trend sets
\* enter_long[i] to 1 exactly where all ten long-entry conditions hold.
C8_LongEntryIff ==
    Has("enter_long") =>
        \A i \in Rows : (At("enter_long", i) = 1) <=> LongEntryHolds(i)

\* a long entry fired on a frame long enough for volume_ratio to be defined
C8_Witness ==
    /\ Has("enter_long")
    /\ \E i \in Rows : At("enter_long", i) = 1 /\ LongEntryHolds(i)

\* the conditions of the long exit, in the claim's words
LongExitFires(i) ==
    \/ At("macd_cross_down", i) = 1
    \/ Defined("rsi", i) /\ At("rsi", i) > params.rsi_overbought
    \/ Above("bb_percent", i, NineTenths)
    \/ Defined("stoch_k", i) /\ At("stoch_k", i) > 80
    \/ Defined("stoch_d", i) /\ At("stoch_d", i) > 80
    \/ Defined("williams_r", i) /\ At("williams_r", i) < -20
    \/ Defined("cci", i) /\ At("cci", i) > 100
    \/ Below("price_momentum", i, MinusTwoPercent)

\* C9: populate_exit_trend sets exit_long[i] to 1 exactly where at least one
\* long-exit condition holds, whatever is undefined in the other columns.
C9_LongExitIff ==
    Has("exit_long") =>
        \A i \in Rows : (At("exit_long", i) = 1) <=> LongExitFires(i)

\* a long exit fired by one column while another column of the row is NaN
C9_Witness ==
    /\ Has("exit_long")
    /\ \E i \in Rows :
        /\ At("exit_long", i) = 1
        /\ Defined("cci", i) /\ At("cci", i) > 100
        /\ \/ \E c \in {"rsi", "stoch_k", "williams_r"} : ~Defined(c, i)
           \/ ~FDefined("bb_percent", i)

\* the columns an entry rule reads at position i, the MACD pair of the
\* previous position included (undefined at the first position)
EntryInputUndefined(i) ==
    \/ \E c \in {"macd", "macdsignal", "rsi", "ema_20", "adx", "stoch_k", "stoch_d",
                 "williams_r", "cci"} : ~Defined(c, i)
    \/ \E c \in {"volume_ratio", "price_momentum", "bb_percent"} : ~FDefined(c, i)
    \/ i = 1
    \/ ~Defined("macd", i - 1)
    \/ ~Defined("macdsignal", i - 1)

\* C10: where a column an entry rule needs is undefined, neither enter_long
\* nor enter_short is 1; the first position never carries a crossover flag.
C10_NoEntryOnUndefined ==
    /\ Has("macd_cross") =>
        (At("macd_cross", 1) = 0 /\ At("macd_cross_down", 1) = 0)
    /\ (Has("enter_long") /\ Has("enter_short")) =>
        \A i \in Rows :
            EntryInputUndefined(i) =>
                (At("enter_long", i) # 1 /\ At("enter_short", i) # 1)

\* entries evaluated on a frame with a bullish crossover at a position whose
\* CCI alone is undefined, every other reading defined: no entry is set there
C10_Witness ==
    /\ Has("enter_long") /\ Has("enter_short")
    /\ \E i \in Rows :
        /\ At("macd_cross", i) = 1
        /\ ~Defined("cci", i)
        /\ \A c \in {"rsi", "ema_20", "adx", "stoch_k", "stoch_d", "williams_r"} :
               Defined(c, i)
        /\ \A c \in {"volume_ratio", "price_momentum", "bb_percent"} : FDefined(c, i)
        /\ At("enter_long", i) # 1 /\ At("enter_short", i) # 1
----------------------------------------------------------------------------
(* Properties of custom_stoploss (under SpecStoploss).                     *)

Returned(op) == call.op = op /\ ~IsNaN(ret)
Elapsed == call.current_time - call.trade.open_date_utc

\* C3: once the grace period has passed, custom_stoploss returns -0.02 (long)
\* or +0.02 (short) for profit > 0.02, -0.015 or +0.015 for
\* 0.01 < profit <= 0.02, and self.stoploss as it is for profit <= 0.01.
C3_ProfitTiers ==
    (Returned("custom_stoploss") /\ Elapsed >= 600) =>
        ret = (IF call.current_profit > 200
               THEN (IF call.trade.is_short THEN 200 ELSE -200)
               ELSE IF call.current_profit > 100
               THEN (IF call.trade.is_short THEN 150 ELSE -150)
               ELSE -1000)

\* a short trade past the grace period, in the top profit tier
C3_Witness ==
    /\ Returned("custom_stoploss") /\ Elapsed >= 600
    /\ call.trade.is_short /\ call.current_profit > 200 /\ ret = 200

\* C4: during the first 600 seconds after the trade opened, custom_stoploss
\* returns self.stoploss whatever the profit and the side; a tiered distance
\* is returned only after that.
C4_GracePeriod ==
    Returned("custom_stoploss") =>
        /\ Elapsed < 600 => ret = -1000
        /\ ret # -1000 => Elapsed >= 600

\* a call inside the grace period with a profit of the top tier
C4_Witness ==
    /\ Returned("custom_stoploss")
    /\ Elapsed >= 0 /\ Elapsed < 600
    /\ call.current_profit > 200 /\ ret = -1000

----------------------------------------------------------------------------
(* Properties of leverage (under SpecLeverage).                            *)

Smaller(a, b) == IF a <= b THEN a ELSE b
Larger(a, b) == IF a >= b THEN a ELSE b

\* C5 as stated: for any history length, 1 <= leverage() <= configured
\* max_leverage and leverage() <= host max_leverage.
C5_AlwaysWithinBounds ==
    Returned("leverage") =>
        /\ ret >= Scale
        /\ ret <= params.max_leverage * Scale
        /\ ret <= call.max_leverage

\* C5, amended: with at least 20 candles, 1 <= leverage() <= configured
\* max_leverage, and leverage() <= host max_leverage whenever the host's
\* max_leverage is at least 1.
C5_WithinBoundsOnFullHistory ==
    (Returned("leverage") /\ NRows(dataframe) >= 20) =>
        /\ ret >= Scale
        /\ ret <= params.max_leverage * Scale
        /\ call.max_leverage >= Scale => ret <= call.max_leverage

\* a full history where the host's max_leverage is what caps the result
C5_Witness ==
    /\ Returned("leverage") /\ NRows(dataframe) >= 20
    /\ call.max_leverage > Scale
    /\ call.max_leverage < params.base_leverage * HighVolMultiplier
    /\ ret = call.max_leverage

\* the larger of two volatility estimates
LargerEstimate(a, b) == IF FLt(a, b) THEN b ELSE a

\* the threshold, and 0.7 times the threshold as the float product gives it
Threshold == Dec(params.volatility_threshold)
LowerThreshold == FMul(Threshold, Dec(7000))

\* the multiplier of the claim: 0.5 above the threshold, 0.75 above 0.7 times
\* the threshold, 1.0 otherwise
TierMultiplier(vol) ==
    IF FGt(vol, Threshold) THEN 5000
    ELSE IF FGt(vol, LowerThreshold) THEN 7500
    ELSE 10000

\* C6: with at least 20 candles, leverage() = max(1, min(base_leverage *
\* multiplier, configured max_leverage, host max_leverage)), the multiplier
\* taken from the larger of the two volatility estimates.
C6_ClampedTieredLeverage ==
    (Returned("leverage") /\ NRows(dataframe) >= 20) =>
        ret = Larger(Scale,
                     Smaller(params.base_leverage
                                * TierMultiplier(LargerEstimate(Volatility(dataframe),
                                                                AtrVolatility(dataframe))),
                             Smaller(params.max_leverage * Scale, call.max_leverage)))

\* a full history in the middle tier, decided by the high-low range while the
\* returns' deviation alone would sit in the lowest tier
C6_Witness ==
    /\ Returned("leverage") /\ NRows(dataframe) >= 20
    /\ FGt(AtrVolatility(dataframe), Volatility(dataframe))
    /\ TierMultiplier(AtrVolatility(dataframe)) = 7500
    /\ TierMultiplier(Volatility(dataframe)) = 10000
    /\ ret = params.base_leverage * 7500

\* C7: with fewer than 20 candles, leverage() = min(proposed_leverage,
\* base_leverage), whatever the volatility and the two max_leverage values.
C7_ShortHistoryLeverage ==
    (Returned("leverage") /\ NRows(dataframe) < 20) =>
        ret = Smaller(call.proposed_leverage, params.base_leverage * Scale)

\* a short history whose result exceeds the host's max_leverage
C7_Witness ==
    /\ Returned("leverage") /\ NRows(dataframe) < 20
    /\ ret > call.max_leverage
    /\ ret = call.proposed_leverage
----------------------------------------------------------------------------
(* Properties of the whole signal pipeline.                                *)

InputCols == {"date", "open", "high", "low", "close", "volume"}
SignalCols == {"enter_long", "enter_short", "exit_long", "exit_short"}

\* the first k rows of a frame
Prefix(df, k) == [c \in DOMAIN df |-> [i \in 1 .. k |-> df[c][i]]]

\* the candles the frame was built from: its input columns
CandlesOf(df) == [c \in InputCols |-> df[c]]

\* the three populate_* calls in a row on a fresh frame
Signals(candles, ta, p) == WithExits(WithEntries(WithIndicators(candles, ta), p), p)

\* C11: the four signals at position i are those of the series cut after
\* position i, so two series that agree up to i carry the same signals at i
\* (the TA-Lib results at a position taken to depend on the candles up to it).
C11_NoLookAhead ==
    (\A c \in SignalCols : Has(c)) =>
        \A k \in Rows :
            LET cut == Signals(Prefix(CandlesOf(dataframe), k), Prefix(talib, k), params)
            IN  \A c \in SignalCols : cut[c][k] = At(c, k)

\* all four signal columns are there, a long entry is set at a position that
\* is not the last, and a later candle closes at another price
C11_Witness ==
    /\ \A c \in SignalCols : Has(c)
    /\ \E k \in Rows :
        /\ At("enter_long", k) = 1
        /\ \E j \in Rows : j > k /\ At("close", j) # At("close", k)

\* C12: populate_entry_trend and populate_exit_trend leave the frame they are
\* given as it was (same columns, same values); the signal columns go to a
\* copy.
C12_InputFrameUnchanged ==
    [][(populate_entry_trend \/ populate_exit_trend) => dataframe' = dataframe]_vars

\* C13: every populate_* call returns a frame with as many rows as it was
\* given, in every column, and with every column it was given; so a series of
\* N candles, N below the longest look-back or not, comes back with N rows and
\* its input columns.
C13_RowsAndColumnsKept ==
    [][/\ \A c \in DOMAIN dataframe' : Len(dataframe'[c]) = NRows(dataframe)
       /\ DOMAIN dataframe \subseteq DOMAIN dataframe'
       /\ InputCols \subseteq DOMAIN dataframe']_vars

\* a frame shorter than the longest look-back after all three calls: it has
\* the rows of the TA-Lib results it was built with, and all its columns
C13_Witness ==
    /\ \A c \in SignalCols \cup TaCols \cup InputCols : Has(c)
    /\ NRows(dataframe) < LongestLookback
    /\ NRows(dataframe) = Len(talib["macd"])
    /\ \A c \in DOMAIN dataframe : Len(dataframe[c]) = NRows(dataframe)

----------------------------------------------------------------------------
(* Properties of successive custom_stoploss calls (under SpecTrailing).    *)

\* two calls for the same trade, both past the grace period, the later one at
\* a profit no lower than the earlier one
ProfitNotLower ==
    /\ Returned("custom_stoploss")
    /\ call.earlier.op = "custom_stoploss"
    /\ call.earlier.current_time - call.trade.open_date_utc >= GracePeriod
    /\ Elapsed >= GracePeriod
    /\ call.earlier.current_profit <= call.current_profit

\* C14 as stated: past the grace period, for p1 <= p2 the magnitude of the
\* stop at p2 is at most the magnitude at p1.
C14_HigherProfitNeverWider ==
    ProfitNotLower => Abs(ret) <= Abs(call.earlier.ret)

\* C14, amended: the same, except from a profit in (0.01, 0.02] to a profit
\* above 0.02, where the stop widens from 0.015 to 0.02.
C14_NeverWiderButMiddleToTop ==
    (ProfitNotLower
     /\ ~(call.earlier.current_profit > LowProfit /\ call.earlier.current_profit <= HighProfit
          /\ call.current_profit > HighProfit))
        => Abs(ret) <= Abs(call.earlier.ret)

\* a profit that rose from the default tier into a profit tier between two
\* calls past the grace period: the stop got tighter
C14_Witness ==
    /\ ProfitNotLower
    /\ call.earlier.current_profit <= LowProfit /\ call.current_profit > LowProfit
    /\ Abs(ret) < Abs(call.earlier.ret)

----------------------------------------------------------------------------
(* Entry against exit on the same side (under Spec).                       *)

\* C15: on a frame that went through populate_indicators,
\* populate_entry_trend and populate_exit_trend, no position has an entry and
\* an exit signal for the same side: enter_long = 1 implies exit_long is not
\* 1, and enter_short = 1 implies exit_short is not 1.
C15_NoEntryWithSameSideExit ==
    (\A c \in SignalCols : Has(c)) =>
        \A i \in Rows :
            /\ At("enter_long", i) = 1 => At("exit_long", i) # 1
            /\ At("enter_short", i) = 1 => At("exit_short", i) # 1

\* a fully processed frame with a long entry at a position where the exit of
\* the other side fired: the exit rules did act there
C15_Witness ==
    /\ \A c \in SignalCols : Has(c)
    /\ \E i \in Rows :
        /\ At("enter_long", i) = 1
        /\ At("exit_long", i) # 1
        /\ At("exit_short", i) = 1

====
